---- MODULE Spec2Model ----
(***************************************************************************)
(* PyWebTranslator: the DeepL translation session (TranslationService /    *)
(* DeepL in src/src/pywebtranslator/services.py) and the                   *)
(* TranslationServicePool (pywebtranslator/code/threading.py).             *)
(*                                                                         *)
(* Python strings are modelled as sequences of one-character strings, so   *)
(* that str.lower(), len() and the `in` substring test are computed.       *)
(***************************************************************************)
EXTENDS Integers, Sequences, FiniteSets, TLC

VARIABLES
    sup_langs,   \* self.sup_langs: [src_langs, tgt_langs], read once in __init__
    src_lang,    \* self.src_lang
    tgt_lang,    \* self.tgt_lang
    srcArea,     \* content of the page's source textarea
    tgtArea,     \* value of the page's target textarea (result area)
    pc,          \* position of the running translate(): idle/stale_wait/ready_wait/read
    polls,       \* polls the running WebDriverWait has spent
    last,        \* the call in progress or last completed, with what it did
    pool,        \* TranslationServicePool._pool: the available sessions
    services,    \* TranslationServicePool._services: every session created
    created,     \* number of sessions constructed so far (sessions are 1..created)
    quits,       \* per session, the number of quit() calls it received
    teardowns,   \* number of TranslationServicePool.quit() runs
    held,        \* per caller, the sessions it got from claim() and has not stashed
    tpc,         \* per thread, its position inside claim() / translate()
    tmode,       \* per thread, the pool method in flight ("translate" stays once it ended)
    tlocal,      \* per thread, the local ts_service / service (0: unset)
    indexError,  \* some claim() ended in IndexError (pop from an empty list)
    plast,       \* the last completed pool call of a single-threaded run
    peak,        \* the largest number of sessions that were held at the same time
    inst         \* with several pool objects: who constructed, handed out and quit what

svars == <<sup_langs, src_lang, tgt_lang, srcArea, tgtArea, pc, polls, last>>
pvars == <<pool, services, created, quits, teardowns, held, tpc, tmode, tlocal,
           indexError, plast, peak, inst>>
vars == <<svars, pvars>>

----------------------------------------------------------------------------
\* Bounds

\* polls a WebDriverWait makes before its deadline passes
MaxPolls == 2
\* longest content of the source textarea that is explored
MaxSrcLen == 4
\* sessions the pool may construct
MaxSessions == 3
\* callers (threads) using the pool
NumCallers == 2
\* runs of the pool's quit()
MaxTeardowns == 2

----------------------------------------------------------------------------
\* Strings

EmptyStr == << >>
EN == <<"e", "n">>
DE == <<"d", "e">>
PT == <<"p", "t">>
XX == <<"x", "x">>
DE_UP == <<"D", "E">>
EN_GB == <<"e", "n", "-", "G", "B">>
PT_PT == <<"p", "t", "-", "P", "T">>

\* str.lower() on one character
LowerChar(c) ==
    CASE c = "B" -> "b"
      [] c = "D" -> "d"
      [] c = "E" -> "e"
      [] c = "G" -> "g"
      [] c = "P" -> "p"
      [] c = "T" -> "t"
      [] OTHER -> c

RECURSIVE Lower(_)
\* str.lower()
Lower(s) == IF s = << >> THEN << >> ELSE <<LowerChar(Head(s))>> \o Lower(Tail(s))

\* str.upper() on one character
UpperChar(c) ==
    CASE c = "d" -> "D"
      [] c = "e" -> "E"
      [] c = "n" -> "N"
      [] c = "x" -> "X"
      [] OTHER -> c

RECURSIVE Upper(_)
\* str.upper()
Upper(s) == IF s = << >> THEN << >> ELSE <<UpperChar(Head(s))>> \o Upper(Tail(s))

\* Python's `sub in s` on strings
Contains(sub, s) ==
    \E i \in 0..(Len(s) - Len(sub)) : SubSeq(s, i + 1, i + Len(sub)) = sub

\* the placeholder DeepL shows while it is still translating
Placeholder == <<"[", ".", ".", ".", "]">>
\* minimum length of a finished translation
ReadyLimit == 2

\* texts a caller passes to translate()
Texts == {EmptyStr, <<"a">>, <<"a", "b">>}
\* values the page can show in the result area
ResultValues == {EmptyStr, <<"a", "b">>, <<"c", "d">>, Placeholder}
\* language ids a caller passes to the single-language setters
LangArgs == {EN, DE, EN_GB, XX, DE_UP, PT}
\* language ids a caller passes as a pair
PairArgs == {EN, DE, XX}

\* Optional[str] fallback: None, "" and "X"
NoFallback == [given |-> FALSE, val |-> EmptyStr]
Fallbacks == {NoFallback, [given |-> TRUE, val |-> EmptyStr], [given |-> TRUE, val |-> <<"X">>]}

\* catalogs a DeepL page can list (_get_sup_langs reads them from the page)
Catalogs ==
    { [src_langs |-> {EN, DE}, tgt_langs |-> {EN, DE}],
      [src_langs |-> {EN, DE}, tgt_langs |-> {EN_GB, DE}] }

----------------------------------------------------------------------------
\* The page's controls (DeepL.CSS) and the driver

SrcBtn == <<"src_lang_list_btn">>
TgtBtn == <<"tgt_lang_list_btn">>
SwitchBtn == <<"lang_switch_btn">>
OptSel(id) == <<"translator-lang-option-">> \o id
DiscardTabs == <<"discard_tabs">>
SendKeys == <<"send_keys">>
ClearSrc == <<"clear">>

Buttons == {SrcBtn, TgtBtn, SwitchBtn}
\* elements that search_elem may fail to find within its 5 s wait in one call
Flaky == Buttons \cup {OptSel(DE), OptSel(EN_GB), OptSel(EN)}
DownSets == {{}} \cup {{s} : s \in Flaky} \cup {{OptSel(EN_GB), OptSel(EN)}}
\* the same, as explored for the calls that select a pair
PairDownSets == {{}, {SwitchBtn}, {OptSel(DE)}}

\* the option buttons the page has in its two language lists
SrcOptions == {OptSel(id) : id \in sup_langs.src_langs}
TgtOptions == {OptSel(id) : id \in sup_langs.tgt_langs}

\* Driver.click_elem: search_elem raises TimeoutException when the element
\* does not become visible, otherwise the element is clicked
click_elem(st, sel, present, down) ==
    IF sel \in present /\ sel \notin down
    THEN [st EXCEPT !.ui = Append(@, [sel |-> sel, ok |-> TRUE])]
    ELSE [st EXCEPT !.ui = Append(@, [sel |-> sel, ok |-> FALSE]),
                    !.err = "TimeoutException"]

\* mutant of is_src_lang_supported: every id is taken as supported
is_src_lang_supported_Any(language) == TRUE

\* membership of an id in the catalog read at construction
is_src_lang_supported(language) == language \in sup_langs.src_langs

is_tgt_lang_supported(language) == language \in sup_langs.tgt_langs

----------------------------------------------------------------------------
\* Language negotiation (DeepL._set_src_lang, _set_tgt_lang, _set_langs,
\* _switch_langs).  st = [src_lang, tgt_lang, ui, err]; err = "" is no error.

\* mutant of set_src_lang: the id is tracked before the clicks are made
set_src_lang_TracksFirst(st, arg, down) ==
    LET lang == Lower(arg) IN
    IF ~is_src_lang_supported(lang)
    THEN [st EXCEPT !.err = "BadSourceLanguageError"]
    ELSE IF lang # st.src_lang
    THEN LET s0 == [st EXCEPT !.src_lang = lang]
             s1 == click_elem(s0, SrcBtn, Buttons, down)
         IN  IF s1.err # "" THEN s1 ELSE click_elem(s1, OptSel(lang), SrcOptions, down)
    ELSE st

\* _set_src_lang: validate, skip when current, click the list and the option
set_src_lang(st, arg, down) ==
    LET lang == Lower(arg) IN
    IF ~is_src_lang_supported(lang)
    THEN [st EXCEPT !.err = "BadSourceLanguageError"]
    ELSE IF lang # st.src_lang
    THEN LET s1 == click_elem(st, SrcBtn, Buttons, down)
             s2 == click_elem(s1, OptSel(lang), SrcOptions, down)
         IN  IF s1.err # "" THEN s1
             ELSE IF s2.err # "" THEN s2
             ELSE [s2 EXCEPT !.src_lang = lang]
    ELSE st

\* mutant of click_dialect: the regional option is the only attempt
click_dialect_RegionalOnly(st, regional, generic, down) ==
    click_elem(st, OptSel(regional), TgtOptions, down)

\* click the regional option first, the generic one when that times out
click_dialect(st, regional, generic, down) ==
    LET t1 == click_elem(st, OptSel(regional), TgtOptions, down)
    IN  IF t1.err = "" THEN t1
        ELSE click_elem([t1 EXCEPT !.err = ""], OptSel(generic), TgtOptions, down)

set_tgt_lang(st, arg, down) ==
    LET lang == Lower(arg) IN
    IF lang # st.tgt_lang /\ lang # st.src_lang
    THEN LET s1 == click_elem(st, TgtBtn, Buttons, down)
             s2 == IF lang = EN THEN click_dialect(s1, EN_GB, EN, down)
                   ELSE IF lang = PT THEN click_dialect(s1, PT_PT, PT, down)
                   ELSE IF ~is_tgt_lang_supported(lang)
                        THEN [s1 EXCEPT !.err = "BadTargetLanguageError"]
                   ELSE click_elem(s1, OptSel(lang), TgtOptions, down)
         IN  IF s1.err # "" THEN s1
             ELSE IF s2.err # "" THEN s2
             ELSE [s2 EXCEPT !.tgt_lang = lang]
    ELSE st

\* mutant of switch_langs: the button is clicked, the tracked ids stay
switch_langs_KeepsPair(st, down) == click_elem(st, SwitchBtn, Buttons, down)

\* _switch_langs: click the swap button, then exchange the tracked ids
switch_langs(st, down) ==
    LET s1 == click_elem(st, SwitchBtn, Buttons, down)
    IN  IF s1.err # "" THEN s1
        ELSE [s1 EXCEPT !.src_lang = st.tgt_lang, !.tgt_lang = st.src_lang]

\* mutant of IsReversed: both arguments compared with the current source
IsReversed_SourceTwice(st, a, b) == a = st.src_lang /\ b = st.src_lang

\* the test of _set_langs for using the website's swap button
IsReversed(st, a, b) == a = st.tgt_lang /\ b = st.src_lang

\* mutant of set_langs: the target is selected before the source
set_langs_TargetFirst(st, a, b, down) ==
    IF IsReversed(st, a, b)
    THEN switch_langs(st, down)
    ELSE LET s1 == set_tgt_lang(st, b, down)
         IN  IF s1.err # "" THEN s1 ELSE set_src_lang(s1, a, down)

\* _set_langs: the swap button for a reversed pair, else source then target
set_langs(st, a, b, down) ==
    IF IsReversed(st, a, b)
    THEN switch_langs(st, down)
    ELSE LET s1 == set_src_lang(st, a, down)
         IN  IF s1.err # "" THEN s1 ELSE set_tgt_lang(s1, b, down)

----------------------------------------------------------------------------
\* The older DeepL variant (services/deepl.py): one catalog, read from the
\* source list; _set_source_language, _set_target_language, _set_languages
\* and _switch_languages.  st is as above.

\* TranslationService.is_language_supported of the older variant
is_language_supported(language) == language \in sup_langs.src_langs

\* the id of a target option: f"{lang.lower()}-{region}"
TgtOptionId(lang, region) == Lower(lang) \o <<"-">> \o region

\* the option buttons of the older page's target list
OldTgtOptions ==
    {OptSel(TgtOptionId(id, Upper(id))) : id \in sup_langs.src_langs}
        \cup {OptSel(TgtOptionId(EN, <<"U", "S">>))}

set_source_language(st, src, down) ==
    IF ~is_language_supported(src)
    THEN [st EXCEPT !.err = "ValueError"]
    ELSE IF src # st.src_lang
    THEN LET s1 == click_elem(st, SrcBtn, Buttons, down)
             s2 == click_elem(s1, OptSel(Lower(src)), SrcOptions, down)
         IN  IF s1.err # "" THEN s1
             ELSE IF s2.err # "" THEN s2
             ELSE [s2 EXCEPT !.src_lang = src]
    ELSE st

set_target_language(st, tgt, down) ==
    IF ~is_language_supported(tgt)
    THEN [st EXCEPT !.err = "ValueError"]
    ELSE IF tgt # st.tgt_lang /\ tgt # st.src_lang
    THEN LET s1 == click_elem(st, TgtBtn, Buttons, down)
             us == click_elem(s1, OptSel(TgtOptionId(tgt, <<"U", "S">>)), OldTgtOptions, down)
             s2 == IF tgt = EN /\ us.err = "" THEN us
                   ELSE click_elem(IF tgt = EN THEN [us EXCEPT !.err = ""] ELSE s1,
                                   OptSel(TgtOptionId(tgt, Upper(tgt))), OldTgtOptions, down)
         IN  IF s1.err # "" THEN s1
             ELSE IF s2.err # "" THEN s2
             ELSE [s2 EXCEPT !.tgt_lang = tgt]
    ELSE st

switch_languages(st, down) ==
    LET s1 == click_elem(st, SwitchBtn, Buttons, down)
    IN  IF s1.err # "" THEN s1
        ELSE [s1 EXCEPT !.src_lang = st.tgt_lang, !.tgt_lang = st.src_lang]

\* the test of _set_languages for using the swap button
UsesSwitch(st, src, tgt) == src = st.src_lang /\ tgt = st.src_lang

set_languages(st, src, tgt, down) ==
    IF ~is_language_supported(src) THEN [st EXCEPT !.err = "ValueError"]
    ELSE IF ~is_language_supported(tgt) THEN [st EXCEPT !.err = "ValueError"]
    ELSE IF UsesSwitch(st, src, tgt)
    THEN switch_languages(st, down)
    ELSE LET s1 == set_source_language(st, src, down)
         IN  IF s1.err # "" THEN s1 ELSE set_target_language(s1, tgt, down)

----------------------------------------------------------------------------
\* Calls on one session.  `last` records the call: its arguments, the state
\* before it, the driver calls it made (ui) and how it ended.

NoCall ==
    [op |-> "init", text |-> EmptyStr, src |-> EmptyStr, tgt |-> EmptyStr,
     fallback |-> NoFallback, outcome |-> "ok", ret |-> EmptyStr, ui |-> << >>,
     pre_src |-> EmptyStr, pre_tgt |-> EmptyStr, pre_srcArea |-> EmptyStr,
     stale |-> FALSE, sawAbsent |-> FALSE, accepted |-> FALSE,
     acceptedAfterAbsent |-> FALSE, failedAt |-> "none", prev |-> << >>]

\* a fresh record for a call that starts now
NewCall(op, text, a, b, fb) ==
    [NoCall EXCEPT !.op = op, !.text = text, !.src = a, !.tgt = b, !.fallback = fb,
                   !.pre_src = src_lang, !.pre_tgt = tgt_lang, !.pre_srcArea = srcArea,
                   !.prev = IF op = "set_pair" /\ last.op = "set_pair" /\ last.outcome = "ok"
                            THEN <<last.src, last.tgt>> ELSE << >>]

Start == [src_lang |-> src_lang, tgt_lang |-> tgt_lang, ui |-> << >>, err |-> ""]

\* mutant of Outcome: an error of the negotiation is swallowed
Outcome_Swallowed(st) == "ok"

\* how a call ends: normally, or with the exception that was raised
Outcome(st) == IF st.err = "" THEN "ok" ELSE st.err

\* a set_* call from the idle session: the tracked pair and the record change
Finish(call, st) ==
    /\ src_lang' = st.src_lang
    /\ tgt_lang' = st.tgt_lang
    /\ last' = [call EXCEPT !.ui = st.ui, !.outcome = Outcome(st),
                            !.failedAt = IF st.err = "TimeoutException" THEN "click" ELSE "none"]

SetSource(x, down) ==
    /\ pc = "idle"
    /\ Finish(NewCall("set_source", EmptyStr, x, EmptyStr, NoFallback),
              set_src_lang(Start, x, down))
    /\ UNCHANGED <<sup_langs, srcArea, tgtArea, pc, polls, pvars>>

SetTarget(x, down) ==
    /\ pc = "idle"
    /\ Finish(NewCall("set_target", EmptyStr, EmptyStr, x, NoFallback),
              set_tgt_lang(Start, x, down))
    /\ UNCHANGED <<sup_langs, srcArea, tgtArea, pc, polls, pvars>>

SetPair(a, b, down) ==
    /\ pc = "idle"
    /\ Finish(NewCall("set_pair", EmptyStr, a, b, NoFallback),
              set_langs(Start, a, b, down))
    /\ UNCHANGED <<sup_langs, srcArea, tgtArea, pc, polls, pvars>>

\* _set_languages of the older variant, called on an idle session
SetLanguages(a, b, down) ==
    /\ pc = "idle"
    /\ Finish(NewCall("set_languages", EmptyStr, a, b, NoFallback),
              set_languages(Start, a, b, down))
    /\ UNCHANGED <<sup_langs, srcArea, tgtArea, pc, polls, pvars>>

----------------------------------------------------------------------------
\* TranslationService.translate and DeepL._get_translation

\* mutant of IsShort: only the empty text is returned untranslated
IsShort_OnlyEmpty(text) == Len(text) < 1

\* `if len(text) <= 1: return text`
IsShort(text) == Len(text) <= 1

\* `if fallback:` in the except branch of translate
FallbackUsed(fb) == fb.given /\ fb.val # EmptyStr

\* TextNotPresentAndLongerThan(self._tgt_textarea, '[...]', 2)
TextNotPresentAndLongerThan(value, text, limit) ==
    ~Contains(text, value) /\ Len(value) >= limit

\* mutant of NeedsStaleWait: the result is awaited without the stale check
NeedsStaleWait_Never(text, value) == FALSE

\* `if from_text in self._tgt_textarea.get_attribute('value')`: the stale text
\* has to leave the result area before a result is awaited
NeedsStaleWait(text, value) == Contains(text, value)

\* mutant of TimedOut: at the deadline the wait starts over
TimedOut_StartsOver(wait) ==
    /\ polls' = 0
    /\ UNCHANGED <<pc, last>>

\* the except branch of translate: a TimeoutException of _get_translation
\* becomes the fallback, or is raised again
TimedOut(wait) ==
    /\ pc' = "idle"
    /\ polls' = 0
    /\ last' = IF FallbackUsed(last.fallback)
               THEN [last EXCEPT !.outcome = "ok", !.ret = last.fallback.val, !.failedAt = wait]
               ELSE [last EXCEPT !.outcome = "TimeoutException", !.failedAt = wait]

\* translate() up to the first read of the result area in _get_translation
Translate(text, a, b, fb, down) ==
    /\ pc = "idle"
    /\ Len(srcArea) + Len(text) <= MaxSrcLen
    /\ LET call == NewCall("translate", text, a, b, fb)
           st0 == [Start EXCEPT !.ui = <<[sel |-> DiscardTabs, ok |-> TRUE]>>]
           st1 == set_langs(st0, a, b, down)
       IN  IF IsShort(text)
           THEN /\ last' = [call EXCEPT !.ret = text]
                /\ UNCHANGED <<src_lang, tgt_lang, srcArea, pc, polls>>
           ELSE IF st1.err # ""
           THEN /\ Finish(call, st1)
                /\ UNCHANGED <<srcArea, pc, polls>>
           ELSE /\ src_lang' = st1.src_lang
                /\ tgt_lang' = st1.tgt_lang
                /\ srcArea' = srcArea \o text
                /\ polls' = 0
                /\ pc' = IF NeedsStaleWait(text, tgtArea) THEN "stale_wait" ELSE "ready_wait"
                /\ last' = [call EXCEPT !.ui = Append(st1.ui, [sel |-> SendKeys, ok |-> TRUE]),
                                        !.outcome = "running",
                                        !.stale = Contains(text, tgtArea),
                                        !.sawAbsent = ~Contains(text, tgtArea)]
    /\ UNCHANGED <<sup_langs, tgtArea, pvars>>

\* one poll of until_not(text present in the result area).  The condition is
\* read as the older variants state it with TextNotPresent: the submitted
\* text is no longer in the value of the target textarea.
StalePoll ==
    /\ pc = "stale_wait"
    /\ IF ~Contains(last.text, tgtArea)
       THEN /\ pc' = "ready_wait"
            /\ polls' = 0
            /\ last' = [last EXCEPT !.sawAbsent = TRUE]
       ELSE IF polls + 1 >= MaxPolls
       THEN TimedOut("stale_wait")
       ELSE /\ polls' = polls + 1
            /\ UNCHANGED <<pc, last>>
    /\ UNCHANGED <<sup_langs, src_lang, tgt_lang, srcArea, tgtArea, pvars>>

\* one poll of until(TextNotPresentAndLongerThan(result area, '[...]', 2))
ReadyPoll ==
    /\ pc = "ready_wait"
    /\ IF TextNotPresentAndLongerThan(tgtArea, Placeholder, ReadyLimit)
       THEN /\ pc' = "read"
            /\ polls' = 0
            /\ last' = [last EXCEPT !.accepted = TRUE,
                                    !.acceptedAfterAbsent = last.sawAbsent]
       ELSE IF polls + 1 >= MaxPolls
       THEN /\ TimedOut("ready_wait")
       ELSE /\ polls' = polls + 1
            /\ pc' = pc
            /\ last' = [last EXCEPT !.sawAbsent = @ \/ ~Contains(last.text, tgtArea)]
    /\ UNCHANGED <<sup_langs, src_lang, tgt_lang, srcArea, tgtArea, pvars>>

\* mutant of clear: the source textarea keeps its content
clear_Keeps(content) == content

\* self._src_textarea.clear(): the content of the textarea afterwards
clear(content) == EmptyStr

\* the read of the result, the clear of the source textarea and the return
ReadResult ==
    /\ pc = "read"
    /\ pc' = "idle"
    /\ srcArea' = clear(srcArea)
    /\ last' = [last EXCEPT !.outcome = "ok", !.ret = tgtArea,
                            !.ui = Append(@, [sel |-> ClearSrc, ok |-> TRUE])]
    /\ UNCHANGED <<sup_langs, src_lang, tgt_lang, tgtArea, polls, pvars>>

\* the website rewrites the result area while it works on a submission
PageUpdate(v) ==
    /\ pc # "idle"
    /\ v # tgtArea
    /\ tgtArea' = v
    /\ UNCHANGED <<sup_langs, src_lang, tgt_lang, srcArea, pc, polls, last, pvars>>

----------------------------------------------------------------------------
\* TranslationServicePool (class-level lists _pool and _services)

Sessions == 1..MaxSessions
Callers == 1..NumCallers

Range(q) == {q[i] : i \in 1..Len(q)}

\* how service.translate() can end inside the pool's translate()
TranslateOutcomes ==
    {"ok", "TimeoutException", "BadSourceLanguageError", "BadTargetLanguageError"}

\* the pool objects of a program that constructs two of them
Pools == {"A", "B"}

\* no pool object has done anything yet
NoInstances ==
    [self |-> "none", op |-> "init", ret |-> 0,
     owner |-> [s \in Sessions |-> "none"],
     via |-> [s \in Sessions |-> "none"],
     quitByOther |-> {}]

NoPoolCall ==
    [op |-> "init", s |-> 0, outcome |-> "ok", prevOp |-> "init",
     prevS |-> 0, createdBefore |-> 0, emptyBefore |-> FALSE]

PoolInit ==
    /\ pool = << >>
    /\ services = << >>
    /\ created = 0
    /\ quits = [s \in Sessions |-> 0]
    /\ teardowns = 0
    /\ held = [c \in Callers |-> {}]
    /\ tpc = [c \in Callers |-> "idle"]
    /\ tmode = [c \in Callers |-> "none"]
    /\ tlocal = [c \in Callers |-> 0]
    /\ indexError = FALSE
    /\ plast = NoPoolCall
    /\ peak = 0
    /\ inst = NoInstances

\* mutant of ListPop: pop(0), the oldest element
ListPop_First(q) == [ret |-> q[1], rest |-> SubSeq(q, 2, Len(q))]

\* mutant of ListPop: the last element is returned and stays in the list
ListPop_Peek(q) == [ret |-> q[Len(q)], rest |-> q]

\* list.pop(): the last element and the list without it
ListPop(q) == [ret |-> q[Len(q)], rest |-> SubSeq(q, 1, Len(q) - 1)]

\* `len(self._pool) <= 0`
PoolIsEmpty(q) == Len(q) <= 0

\* the peak once the sessions of `holding` are held together
Max(a, b) == IF a >= b THEN a ELSE b

PeakWith(holding) == Max(peak, Cardinality(UNION {holding[c] : c \in Callers}))

\* claim() run to completion: [ret, pool, services, created]
claim(q, svcs, n) ==
    IF PoolIsEmpty(q)
    THEN LET ts_service == n + 1
             popped == ListPop(Append(q, ts_service))
         IN  [ret |-> popped.ret, pool |-> popped.rest,
              services |-> Append(svcs, ts_service), created |-> n + 1]
    ELSE LET popped == ListPop(q)
         IN  [ret |-> popped.ret, pool |-> popped.rest, services |-> svcs, created |-> n]

\* stash(service): the pool with the service appended
stash(q, service) == Append(q, service)

\* what translate() of the pool does with the claimed service once
\* service.translate() has ended: stash it when it returned
AfterTranslate(q, service, outcome) ==
    IF outcome = "ok" THEN stash(q, service) ELSE q

\* mutant of QuitTargets: only the sessions that are available are quit
QuitTargets_Available == Range(pool)

\* the sessions quit() of the pool iterates over
QuitTargets == Range(services)

PoolCall(op, s, outcome) ==
    [op |-> op, s |-> s, outcome |-> outcome, prevOp |-> plast.op,
     prevS |-> plast.s, createdBefore |-> created, emptyBefore |-> PoolIsEmpty(pool)]

\* --- single-threaded run: each pool method runs to completion ---

Claim(c) ==
    /\ PoolIsEmpty(pool) => created < MaxSessions
    /\ LET r == claim(pool, services, created)
       IN  /\ pool' = r.pool
           /\ services' = r.services
           /\ created' = r.created
           /\ held' = [held EXCEPT ![c] = @ \cup {r.ret}]
           /\ peak' = PeakWith([held EXCEPT ![c] = @ \cup {r.ret}])
           /\ plast' = PoolCall("claim", r.ret, "ok")
    /\ UNCHANGED <<svars, inst, quits, teardowns, tpc, tmode, tlocal, indexError>>

Stash(c, s) ==
    /\ s \in held[c]
    /\ pool' = stash(pool, s)
    /\ held' = [held EXCEPT ![c] = @ \ {s}]
    /\ plast' = PoolCall("stash", s, "ok")
    /\ UNCHANGED <<svars, inst, peak, services, created, quits, teardowns, tpc, tmode, tlocal, indexError>>

PoolTranslate(c, outcome) ==
    /\ PoolIsEmpty(pool) => created < MaxSessions
    /\ LET r == claim(pool, services, created)
       IN  /\ pool' = AfterTranslate(r.pool, r.ret, outcome)
           /\ services' = r.services
           /\ created' = r.created
           /\ peak' = PeakWith([held EXCEPT ![c] = @ \cup {r.ret}])
           /\ plast' = PoolCall("translate", r.ret, outcome)
    /\ UNCHANGED <<svars, inst, quits, teardowns, held, tpc, tmode, tlocal, indexError>>

\* TranslationServicePool.quit (also __exit__)
Teardown ==
    /\ teardowns < MaxTeardowns
    /\ teardowns' = teardowns + 1
    /\ quits' = [s \in Sessions |-> IF s \in QuitTargets THEN quits[s] + 1 ELSE quits[s]]
    /\ plast' = PoolCall("quit", 0, "ok")
    /\ UNCHANGED <<svars, inst, peak, pool, services, created, held, tpc, tmode, tlocal, indexError>>

\* --- two pool objects, used from a single thread ---

\* self._pool and self._services of the pool object p: __init__ assigns
\* neither, so the attribute lookup ends at the lists of the class
PoolOf(p) == pool

ServicesOf(p) == services

\* the caller that uses the two pool objects
MainCaller == 1

\* p.claim()
ClaimOn(p) ==
    /\ PoolIsEmpty(PoolOf(p)) => created < MaxSessions
    /\ LET r == claim(PoolOf(p), ServicesOf(p), created)
       IN  /\ pool' = r.pool
           /\ services' = r.services
           /\ created' = r.created
           /\ held' = [held EXCEPT ![MainCaller] = @ \cup {r.ret}]
           /\ peak' = PeakWith([held EXCEPT ![MainCaller] = @ \cup {r.ret}])
           /\ inst' = [inst EXCEPT !.self = p, !.op = "claim", !.ret = r.ret,
                                   !.via[r.ret] = p,
                                   !.owner[r.ret] = IF r.created > created THEN p ELSE @]
    /\ UNCHANGED <<svars, quits, teardowns, tpc, tmode, tlocal, indexError, plast>>

\* p.stash(s), with a session s that p.claim() returned
StashOn(p, s) ==
    /\ s \in held[MainCaller]
    /\ inst.via[s] = p
    /\ pool' = stash(PoolOf(p), s)
    /\ held' = [held EXCEPT ![MainCaller] = @ \ {s}]
    /\ inst' = [inst EXCEPT !.self = p, !.op = "stash", !.ret = 0]
    /\ UNCHANGED <<svars, peak, services, created, quits, teardowns, tpc, tmode, tlocal,
                   indexError, plast>>

\* p.quit() (also p.__exit__)
TeardownOn(p) ==
    /\ teardowns < MaxTeardowns
    /\ teardowns' = teardowns + 1
    /\ quits' = [s \in Sessions |-> IF s \in Range(ServicesOf(p)) THEN quits[s] + 1 ELSE quits[s]]
    /\ inst' = [inst EXCEPT !.self = p, !.op = "quit", !.ret = 0,
                            !.quitByOther =
                                @ \cup {s \in Range(ServicesOf(p)) : inst.owner[s] # p}]
    /\ UNCHANGED <<svars, peak, pool, services, created, held, tpc, tmode, tlocal,
                   indexError, plast>>

\* --- translate() of the pool, with the claimed session's translate() in steps ---
\* The session variables are those of the session the caller has claimed.

\* a session that claim() has just constructed
FreshSession ==
    /\ src_lang' = EN
    /\ tgt_lang' = DE
    /\ srcArea' = EmptyStr
    /\ tgtArea' = EmptyStr
    /\ pc' = "idle"
    /\ polls' = 0

\* service = self.claim(), the first statement of translate()
PoolTranslateClaim ==
    /\ tpc[MainCaller] = "idle"
    /\ pc = "idle"
    /\ PoolIsEmpty(pool) => created < MaxSessions
    /\ LET r == claim(pool, services, created)
       IN  /\ pool' = r.pool
           /\ services' = r.services
           /\ created' = r.created
           /\ held' = [held EXCEPT ![MainCaller] = @ \cup {r.ret}]
           /\ peak' = PeakWith([held EXCEPT ![MainCaller] = @ \cup {r.ret}])
           /\ tlocal' = [tlocal EXCEPT ![MainCaller] = r.ret]
           /\ plast' = PoolCall("translate", r.ret, "running")
           /\ IF r.created > created
              THEN FreshSession
              ELSE UNCHANGED <<src_lang, tgt_lang, srcArea, tgtArea, pc, polls>>
    /\ tpc' = [tpc EXCEPT ![MainCaller] = "translating"]
    /\ tmode' = [tmode EXCEPT ![MainCaller] = "translate"]
    /\ last' = NoCall
    /\ UNCHANGED <<sup_langs, inst, quits, teardowns, indexError>>

\* mutant of ServicePending: translate() is called on a session not claimed
ServicePending_Unclaimed == last.op = "init"

\* service.translate(...) has not been called yet
ServicePending == tpc[MainCaller] = "translating" /\ last.op = "init"

\* translation = service.translate(txt, source_language, target_language):
\* the pool passes no fallback
PoolTranslateCall(text, a, b, down) ==
    /\ ServicePending
    /\ Translate(text, a, b, NoFallback, down)

\* service.translate(...) has returned or raised
ServiceEnded == tpc[MainCaller] = "translating" /\ last.op = "translate" /\ pc = "idle"

\* self.stash(service) and the return, or the exception leaving translate()
PoolTranslateEnd ==
    /\ ServiceEnded
    /\ pool' = AfterTranslate(pool, tlocal[MainCaller], last.outcome)
    /\ held' = [held EXCEPT ![MainCaller] = @ \ {tlocal[MainCaller]}]
    /\ tlocal' = [tlocal EXCEPT ![MainCaller] = 0]
    /\ tpc' = [tpc EXCEPT ![MainCaller] = "idle"]
    /\ plast' = [plast EXCEPT !.outcome = last.outcome]
    /\ UNCHANGED <<svars, inst, peak, services, created, quits, teardowns, tmode, indexError>>

\* --- BrowserPool (src/threading.py): one class-level list __pool, no list
\* of every browser created ---

\* BrowserPool.claim(): a new browser when the pool is empty, else a pop;
\* the new browser is returned without being put into any list
browser_claim(q, n) ==
    IF PoolIsEmpty(q)
    THEN [ret |-> n + 1, pool |-> q, created |-> n + 1]
    ELSE LET popped == ListPop(q)
         IN  [ret |-> popped.ret, pool |-> popped.rest, created |-> n]

\* the browsers __exit__ iterates over
ExitTargets == Range(pool)

BrowserClaim(c) ==
    /\ PoolIsEmpty(pool) => created < MaxSessions
    /\ LET r == browser_claim(pool, created)
       IN  /\ pool' = r.pool
           /\ created' = r.created
           /\ held' = [held EXCEPT ![c] = @ \cup {r.ret}]
           /\ peak' = PeakWith([held EXCEPT ![c] = @ \cup {r.ret}])
           /\ plast' = PoolCall("claim", r.ret, "ok")
    /\ UNCHANGED <<svars, inst, services, quits, teardowns, tpc, tmode, tlocal, indexError>>

\* BrowserPool.stash(browser)
BrowserStash(c, s) ==
    /\ s \in held[c]
    /\ pool' = stash(pool, s)
    /\ held' = [held EXCEPT ![c] = @ \ {s}]
    /\ plast' = PoolCall("stash", s, "ok")
    /\ UNCHANGED <<svars, inst, peak, services, created, quits, teardowns, tpc, tmode,
                   tlocal, indexError>>

\* BrowserPool.__exit__: driver.close() and driver.quit() on each pooled browser
BrowserExit ==
    /\ teardowns < MaxTeardowns
    /\ teardowns' = teardowns + 1
    /\ quits' = [s \in Sessions |-> IF s \in ExitTargets THEN quits[s] + 1 ELSE quits[s]]
    /\ plast' = PoolCall("exit", 0, "ok")
    /\ UNCHANGED <<svars, inst, peak, pool, services, created, held, tpc, tmode, tlocal,
                   indexError>>

\* --- several threads: one step per list operation of claim() / translate() ---

\* claim() or translate() starts: the test `len(self._pool) <= 0`
Begin(t, mode) ==
    /\ tpc[t] = "idle"
    /\ PoolIsEmpty(pool) =>
         created + Cardinality({u \in Callers : tpc[u] = "create"}) < MaxSessions
    /\ tmode' = [tmode EXCEPT ![t] = mode]
    /\ tpc' = [tpc EXCEPT ![t] = IF PoolIsEmpty(pool) THEN "create" ELSE "pop"]
    /\ UNCHANGED <<svars, inst, peak, pool, services, created, quits, teardowns, held, tlocal,
                   indexError, plast>>

\* ts_service = self.service_type(self.driver_type(...)): the new object
\* gets its number when it is appended to _services
Create(t) ==
    /\ tpc[t] = "create"
    /\ created' = created + 1
    /\ tpc' = [tpc EXCEPT ![t] = "register"]
    /\ UNCHANGED <<svars, inst, peak, pool, services, quits, teardowns, held, tmode, tlocal,
                   indexError, plast>>

\* self._services.append(ts_service)
Register(t) ==
    /\ tpc[t] = "register"
    /\ services' = Append(services, Len(services) + 1)
    /\ tlocal' = [tlocal EXCEPT ![t] = Len(services) + 1]
    /\ tpc' = [tpc EXCEPT ![t] = "put"]
    /\ UNCHANGED <<svars, inst, peak, pool, created, quits, teardowns, held, tmode,
                   indexError, plast>>

\* self._pool.append(ts_service)
Put(t) ==
    /\ tpc[t] = "put"
    /\ pool' = stash(pool, tlocal[t])
    /\ tpc' = [tpc EXCEPT ![t] = "pop"]
    /\ tlocal' = [tlocal EXCEPT ![t] = 0]
    /\ UNCHANGED <<svars, inst, peak, services, created, quits, teardowns, held, tmode,
                   indexError, plast>>

\* return self._pool.pop(): IndexError when another thread emptied the list
Pop(t) ==
    /\ tpc[t] = "pop"
    /\ IF PoolIsEmpty(pool)
       THEN /\ indexError' = TRUE
            /\ tpc' = [tpc EXCEPT ![t] = "idle"]
            /\ tmode' = [tmode EXCEPT ![t] = "none"]
            /\ UNCHANGED <<pool, held, tlocal, peak>>
       ELSE LET popped == ListPop(pool)
            IN  /\ pool' = popped.rest
                /\ held' = [held EXCEPT ![t] = @ \cup {popped.ret}]
                /\ peak' = PeakWith([held EXCEPT ![t] = @ \cup {popped.ret}])
                /\ IF tmode[t] = "translate"
                   THEN /\ tpc' = [tpc EXCEPT ![t] = "translating"]
                        /\ tlocal' = [tlocal EXCEPT ![t] = popped.ret]
                        /\ UNCHANGED tmode
                   ELSE /\ tpc' = [tpc EXCEPT ![t] = "idle"]
                        /\ tmode' = [tmode EXCEPT ![t] = "none"]
                        /\ UNCHANGED tlocal
                /\ UNCHANGED indexError
    /\ UNCHANGED <<svars, inst, services, created, quits, teardowns, plast>>

\* service.translate(...) of the pool's translate() returns or raises; when
\* it raises, translate() is left and nobody holds the service any more
Run(t, outcome) ==
    /\ tpc[t] = "translating"
    /\ IF outcome = "ok"
       THEN /\ tpc' = [tpc EXCEPT ![t] = "stash"]
            /\ UNCHANGED <<held, tlocal>>
       ELSE /\ tpc' = [tpc EXCEPT ![t] = "idle"]
            /\ held' = [held EXCEPT ![t] = @ \ {tlocal[t]}]
            /\ tlocal' = [tlocal EXCEPT ![t] = 0]
    /\ UNCHANGED <<svars, inst, peak, pool, services, created, quits, teardowns, tmode, indexError, plast>>

\* self.stash(service) at the end of translate()
StashBack(t) ==
    /\ tpc[t] = "stash"
    /\ pool' = AfterTranslate(pool, tlocal[t], "ok")
    /\ held' = [held EXCEPT ![t] = @ \ {tlocal[t]}]
    /\ tlocal' = [tlocal EXCEPT ![t] = 0]
    /\ tpc' = [tpc EXCEPT ![t] = "idle"]
    /\ UNCHANGED <<svars, inst, peak, services, created, quits, teardowns, tmode, indexError, plast>>

\* a caller stashes a session it holds
Release(t, s) ==
    /\ tpc[t] = "idle"
    /\ s \in held[t]
    /\ pool' = stash(pool, s)
    /\ held' = [held EXCEPT ![t] = @ \ {s}]
    /\ UNCHANGED <<svars, inst, peak, services, created, quits, teardowns, tpc, tmode, tlocal,
                   indexError, plast>>

ThreadsNext ==
    \/ \E t \in Callers, mode \in {"claim", "translate"} : Begin(t, mode)
    \/ \E t \in Callers : Create(t)
    \/ \E t \in Callers : Register(t)
    \/ \E t \in Callers : Put(t)
    \/ \E t \in Callers : Pop(t)
    \/ \E t \in Callers, outcome \in TranslateOutcomes : Run(t, outcome)
    \/ \E t \in Callers : StashBack(t)
    \/ \E t \in Callers, s \in Sessions : Release(t, s)

PoolNext ==
    \/ \E c \in Callers : Claim(c)
    \/ \E c \in Callers, s \in Sessions : Stash(c, s)
    \/ \E c \in Callers, outcome \in TranslateOutcomes : PoolTranslate(c, outcome)
    \/ Teardown

TwoPoolsNext ==
    \/ \E p \in Pools : ClaimOn(p)
    \/ \E p \in Pools, s \in Sessions : StashOn(p, s)
    \/ \E p \in Pools : TeardownOn(p)

PoolTranslateNext ==
    \/ PoolTranslateClaim
    \/ \E text \in Texts, a \in PairArgs, b \in PairArgs, down \in PairDownSets :
          PoolTranslateCall(text, a, b, down)
    \/ StalePoll
    \/ ReadyPoll
    \/ ReadResult
    \/ \E v \in ResultValues : PageUpdate(v)
    \/ PoolTranslateEnd

BrowserPoolNext ==
    \/ \E c \in Callers : BrowserClaim(c)
    \/ \E c \in Callers, s \in Sessions : BrowserStash(c, s)
    \/ BrowserExit

\* a session whose construction completed: the catalog is read from the page
\* and the tracked pair is the page's selection
SessionInit ==
    /\ sup_langs \in Catalogs
    /\ src_lang \in sup_langs.src_langs
    /\ tgt_lang \in sup_langs.tgt_langs
    /\ src_lang # tgt_lang
    /\ srcArea = EmptyStr
    /\ tgtArea = EmptyStr
    /\ pc = "idle"
    /\ polls = 0
    /\ last = NoCall

Init ==
    /\ SessionInit
    /\ PoolInit

SessionNext ==
    \/ \E x \in LangArgs, down \in DownSets : SetSource(x, down)
    \/ \E x \in LangArgs, down \in DownSets : SetTarget(x, down)
    \/ \E a \in PairArgs, b \in PairArgs, down \in PairDownSets : SetPair(a, b, down)
    \/ \E text \in Texts, a \in PairArgs, b \in PairArgs, fb \in Fallbacks, down \in PairDownSets :
          Translate(text, a, b, fb, down)
    \/ StalePoll
    \/ ReadyPoll
    \/ ReadResult
    \/ \E v \in ResultValues : PageUpdate(v)

OldSessionNext ==
    \E a \in PairArgs, b \in PairArgs, down \in PairDownSets : SetLanguages(a, b, down)

\* one session of the older variant, driven through _set_languages
SpecOldSession == Init /\ [][OldSessionNext]_vars

\* one session driven by one caller
SpecSession == Init /\ [][SessionNext]_vars

\* the thread inside translate() keeps running: every poll of the two
\* WebDriverWait loops and the read after them are steps it takes by itself
SpecSessionLive ==
    /\ Init
    /\ [][SessionNext]_vars
    /\ WF_vars(StalePoll)
    /\ WF_vars(ReadyPoll)
    /\ WF_vars(ReadResult)

\* the pool's sessions are not driven directly while the pool is explored
PoolOnlyInit ==
    /\ PoolInit
    /\ SessionInit
    /\ sup_langs = [src_langs |-> {EN, DE}, tgt_langs |-> {EN, DE}]
    /\ src_lang = EN

\* one pool used from a single thread
SpecPool == PoolOnlyInit /\ [][PoolNext]_vars

\* one caller of the pool's translate(), the session's translate() in steps
SpecPoolTranslate == PoolOnlyInit /\ [][PoolTranslateNext]_vars

\* one BrowserPool used from a single thread
SpecBrowserPool == PoolOnlyInit /\ [][BrowserPoolNext]_vars

\* two pool objects used from a single thread
SpecTwoPools == PoolOnlyInit /\ [][TwoPoolsNext]_vars

\* one pool used by several threads at once
SpecThreads == PoolOnlyInit /\ [][ThreadsNext]_vars

----------------------------------------------------------------------------
\* Properties

BadLanguageErrors == {"BadSourceLanguageError", "BadTargetLanguageError"}

\* the clicks of a call on the language controls, attempted or done
IsSelection(e) == e.sel \notin {DiscardTabs, SendKeys, ClearSrc}
SelectionClicks(ui) == SelectSeq(ui, IsSelection)

\* C1: translate() of a text of length 0 or 1 returns the text itself, makes
\* no call on the driver (no tab cleanup, no click, no send_keys, no wait)
\* and leaves src_lang and tgt_lang as they were, whatever the other arguments.
C1_ShortTextUntouched ==
    (last.op = "translate" /\ Len(last.text) <= 1) =>
        /\ pc = "idle"
        /\ polls = 0
        /\ last.outcome = "ok"
        /\ last.ret = last.text
        /\ last.ui = << >>
        /\ src_lang = last.pre_src
        /\ tgt_lang = last.pre_tgt
        /\ srcArea = last.pre_srcArea

\* a one-character text was passed with a source id no catalog has
C1_Witness ==
    /\ last.op = "translate"
    /\ Len(last.text) = 1
    /\ last.src = XX
    /\ last.fallback.given
    /\ last.ret = last.text

\* C2: single-threaded, every claim() that finds the pool empty constructs
\* exactly one new session, distinct from all earlier ones, and a claim()
\* right after stash(s) returns s and constructs nothing.
C2_ClaimCreatesOrReuses ==
    /\ Len(services) = created
    /\ \A i, j \in 1..Len(services) : i # j => services[i] # services[j]
    /\ (plast.op = "claim" /\ plast.emptyBefore) =>
          /\ created = plast.createdBefore + 1
          /\ plast.s = created
    /\ (plast.op = "claim" /\ plast.prevOp = "stash") =>
          /\ plast.s = plast.prevS
          /\ created = plast.createdBefore

\* a stashed session was claimed again while another one was available too
C2_Witness ==
    /\ plast.op = "claim"
    /\ plast.prevOp = "stash"
    /\ plast.s = plast.prevS
    /\ ~PoolIsEmpty(pool)
    /\ created = MaxSessions

\* C3: with several threads inside claim(), stash() and translate() of the
\* pool, no session is held by two callers at once, and no two translate()
\* calls run on the same session at once.
C3_NoSessionHeldTwice ==
    \A t, u \in Callers : t # u =>
        /\ held[t] \cap held[u] = {}
        /\ ~(tpc[t] = "translating" /\ tpc[u] = "translating" /\ tlocal[t] = tlocal[u])

\* two translate() calls are in flight at once, after a claim() lost a race
C3_Witness ==
    /\ indexError
    /\ \E t, u \in Callers :
          /\ t # u
          /\ tpc[t] = "translating"
          /\ tpc[u] = "translating"
          /\ tlocal[t] # tlocal[u]

\* C4: when service.translate() raises inside the pool's translate(), the
\* claimed session is back in the pool when the exception reaches the caller.
C4_RaisedTranslateReleases ==
    (plast.op = "translate" /\ plast.outcome # "ok") => plast.s \in Range(pool)

C6_FallbackOnReadyTimeout ==
    (last.op = "translate" /\ pc = "idle" /\ last.failedAt = "ready_wait") =>
        IF last.fallback.given
        THEN last.outcome = "ok" /\ last.ret = last.fallback.val
        ELSE last.outcome = "TimeoutException"

SwapPathTaken ==
    LET clicks == SelectionClicks(last.ui) IN
    /\ Len(clicks) = 1
    /\ clicks[1].sel = SwitchBtn
    /\ last.outcome \notin BadLanguageErrors
    /\ clicks[1].ok => (src_lang = last.src /\ tgt_lang = last.tgt)

\* C8: set_pair(b, a) right after a set_pair(a, b) that returned, for catalog
\* ids a # b, is done with the swap button alone; so is translate(text, de, en)
\* while the pair is (en, de).
C8_ReversedPairSwaps ==
    /\ ( /\ last.op = "set_pair"
         /\ last.prev # << >>
         /\ last.prev = <<last.tgt, last.src>>
         /\ last.src # last.tgt
         /\ {last.src, last.tgt} \subseteq sup_langs.src_langs \cup sup_langs.tgt_langs )
       => SwapPathTaken
    /\ ( /\ last.op = "translate"
         /\ Len(last.text) > 1
         /\ last.pre_src = EN /\ last.pre_tgt = DE
         /\ last.src = DE /\ last.tgt = EN )
       => SwapPathTaken

\* set_pair(en, de) returned and set_pair(de, en) then swapped the pair
C8_Witness ==
    /\ last.op = "set_pair"
    /\ last.prev = <<EN, DE>>
    /\ last.src = DE
    /\ last.tgt = EN
    /\ last.outcome = "ok"
    /\ src_lang = DE
    /\ tgt_lang = EN

\* C9: set_target(x) with x outside the target catalog raises
\* BadTargetLanguageError and leaves tgt_lang unchanged.
C9_AbsentTargetRejected ==
    (last.op = "set_target" /\ last.tgt \notin sup_langs.tgt_langs) =>
        /\ last.outcome = "BadTargetLanguageError"
        /\ tgt_lang = last.pre_tgt

\* C10: a call that raises BadSourceLanguageError or BadTargetLanguageError
\* has clicked nothing, changed neither language and submitted no text.
C10_ValidationBeforeUI ==
    last.outcome \in BadLanguageErrors =>
        /\ \A i \in 1..Len(last.ui) : IsSelection(last.ui[i]) => ~last.ui[i].ok
        /\ \A i \in 1..Len(last.ui) : last.ui[i].sel # SendKeys
        /\ src_lang = last.pre_src
        /\ tgt_lang = last.pre_tgt
        /\ srcArea = last.pre_srcArea

\* C11: after construction and after every call, src_lang is an id of the
\* source catalog and tgt_lang is an id of the target catalog.
C11_TrackedPairInCatalog ==
    /\ src_lang \in sup_langs.src_langs
    /\ tgt_lang \in sup_langs.tgt_langs

\* a set_pair or a translate (of a text longer than 1) asked for the pair that
\* was already tracked
SamePairRequested ==
    /\ \/ last.op = "set_pair"
       \/ last.op = "translate" /\ Len(last.text) > 1
    /\ last.src = last.pre_src
    /\ last.tgt = last.pre_tgt

\* C15: a set_pair(s, t), direct or inside translate, that finds (s, t)
\* already tracked clicks no language control and leaves the pair unchanged.
C15_SamePairNoClicks ==
    SamePairRequested =>
        /\ SelectionClicks(last.ui) = << >>
        /\ src_lang = last.pre_src
        /\ tgt_lang = last.pre_tgt

\* C16: a time-out of the stale-clearance wait does not reach the caller of
\* translate, neither as TimeoutException nor as the returned fallback.
C16_StaleTimeoutNotSurfaced ==
    (last.op = "translate" /\ pc = "idle" /\ last.failedAt = "stale_wait") =>
        /\ last.outcome # "TimeoutException"
        /\ ~(last.outcome = "ok" /\ ~last.accepted)

\* translate returned what _get_translation read from the result area
ReturnedResult ==
    /\ last.op = "translate"
    /\ pc = "idle"
    /\ last.accepted
    /\ last.outcome = "ok"

\* C17: the text _get_translation returns has no placeholder '[...]' in it
\* and at least 2 characters, however the page changes the result area.
C17_ReturnedTextIsReady ==
    ReturnedResult => TextNotPresentAndLongerThan(last.ret, Placeholder, ReadyLimit)

\* C18: when _get_translation has returned a result, the source textarea is
\* empty.
C18_SourceClearedOnReturn ==
    ReturnedResult => srcArea = EmptyStr

\* a result was returned by a translate that found an earlier text still in
\* the source textarea
C18_Witness ==
    /\ ReturnedResult
    /\ last.pre_srcArea # EmptyStr
    /\ srcArea = EmptyStr

\* the regional and the generic id of a target language with dialects
Regional(lang) == IF lang = EN THEN EN_GB ELSE PT_PT

\* C19: set_target of en or pt (not the current source or target) clicks the
\* regional option first; the generic option is clicked only when that timed
\* out, and only once; when it fails too the error is raised after these two
\* attempts and tgt_lang is unchanged; when one succeeds tgt_lang is the id.
C19_DialectFallbackOnce ==
    ( /\ last.op = "set_target"
      /\ last.tgt \in {EN, PT}
      /\ last.tgt \notin {last.pre_src, last.pre_tgt}
      /\ Len(last.ui) >= 1 /\ last.ui[1].ok ) =>
        /\ last.ui[1].sel = TgtBtn
        /\ Len(last.ui) >= 2
        /\ last.ui[2].sel = OptSel(Regional(last.tgt))
        /\ IF last.ui[2].ok
           THEN /\ Len(last.ui) = 2
                /\ last.outcome = "ok"
                /\ tgt_lang = last.tgt
           ELSE /\ Len(last.ui) = 3
                /\ last.ui[3].sel = OptSel(last.tgt)
                /\ IF last.ui[3].ok
                   THEN last.outcome = "ok" /\ tgt_lang = last.tgt
                   ELSE last.outcome = "TimeoutException" /\ tgt_lang = last.pre_tgt

\* the regional option was missing and the generic one was selected
C19_Witness ==
    /\ last.op = "set_target"
    /\ last.tgt = EN
    /\ Len(last.ui) = 3
    /\ ~last.ui[2].ok
    /\ last.ui[3].ok
    /\ tgt_lang = EN

\* what set_source does for the id `lang`, as C20 describes it
SetSourceContract(lang) ==
    /\ tgt_lang = last.pre_tgt
    /\ IF lang \notin sup_langs.src_langs
       THEN /\ last.outcome = "BadSourceLanguageError"
            /\ last.ui = << >>
            /\ src_lang = last.pre_src
       ELSE IF lang = last.pre_src
       THEN /\ last.outcome = "ok"
            /\ last.ui = << >>
            /\ src_lang = last.pre_src
       ELSE /\ Len(last.ui) >= 1
            /\ last.ui[1].sel = SrcBtn
            /\ last.ui[1].ok =>
                  /\ Len(last.ui) = 2
                  /\ last.ui[2].sel = OptSel(lang)
                  /\ last.ui[2].ok => (last.outcome = "ok" /\ src_lang = lang)

\* C20 as stated: set_source(x) raises BadSourceLanguageError when x is not
\* in the source catalog, does nothing when x is current, otherwise opens the
\* source list, clicks the option of x and tracks x; tgt_lang never changes.
C20_SetSourceById ==
    last.op = "set_source" => SetSourceContract(last.src)

\* C20 amended: the same, for the lower-cased id x.lower().
C20_SetSourceByLoweredId ==
    last.op = "set_source" => SetSourceContract(Lower(last.src))

\* set_source("DE") selected de
C20_Witness ==
    /\ last.op = "set_source"
    /\ last.src = DE_UP
    /\ Len(last.ui) = 2
    /\ last.outcome = "ok"
    /\ src_lang = DE

\* the number of times session s is in the list of available sessions
TimesAvailable(s) == Cardinality({i \in DOMAIN pool : pool[i] = s})

\* the callers that hold session s
Holders(s) == {c \in Callers : s \in held[c]}

\* C12: every available session is in the list of all sessions, and every
\* created session is either available exactly once or held by exactly one
\* caller.
C12_AvailableOrHeld ==
    /\ Range(pool) \subseteq Range(services)
    /\ \A s \in 1..created :
          \/ TimesAvailable(s) = 1 /\ Holders(s) = {}
          \/ TimesAvailable(s) = 0 /\ Cardinality(Holders(s)) = 1

\* C13: with several pool objects, claim() on a pool returns only sessions
\* that this pool constructed, and a session is quit only by the teardown of
\* the pool that constructed it.
C13_PoolStateInstanceOwned ==
    /\ inst.op = "claim" => inst.owner[inst.ret] = inst.self
    /\ inst.quitByOther = {}

\* C14: over any sequence of quit() and teardown calls, the handle of each
\* session is released at most once.
C14_HandleReleasedOnce ==
    \A s \in Sessions : quits[s] <= 1

\* C21: the tracked source is never equal to the tracked target.
C21_SourceDiffersFromTarget ==
    src_lang # tgt_lang

\* C24: a translate whose wait in _get_translation timed out, called without
\* a fallback, returns the empty string and does not raise.
C24_EmptyStringOnTimeout ==
    ( /\ last.op = "translate"
      /\ pc = "idle"
      /\ last.failedAt \in {"stale_wait", "ready_wait"}
      /\ ~last.fallback.given ) =>
        /\ last.outcome = "ok"
        /\ last.ret = EmptyStr

\* set_pair(s, t), direct or inside translate, with catalog ids s # t ended
\* without an error
PairWasSet ==
    /\ \/ last.op = "set_pair" /\ last.outcome = "ok"
       \/ last.op = "translate" /\ Len(last.text) > 1 /\ last.failedAt # "click"
                                /\ last.outcome \notin BadLanguageErrors
    /\ last.src # last.tgt
    /\ last.src \in sup_langs.src_langs
    /\ last.tgt \in sup_langs.tgt_langs

\* C25: when set_pair(s, t) with catalog ids s # t returns normally, the
\* tracked pair is (s, t), by the swap path and by the sequential path.
C25_PairIsTheRequestedOne ==
    PairWasSet => (src_lang = last.src /\ tgt_lang = last.tgt)

\* the swap path set the requested pair
C25_Witness ==
    /\ PairWasSet
    /\ last.op = "set_pair"
    /\ SwapPathTaken
    /\ src_lang = last.src
    /\ tgt_lang = last.tgt
    /\ src_lang = last.pre_tgt

\* translate sent the text to the source textarea
Submitted ==
    /\ last.op = "translate"
    /\ \E i \in DOMAIN last.ui : last.ui[i].sel = SendKeys

\* C26: whenever translate submits a text, the source textarea was empty, so
\* that it holds exactly the caller's text afterwards.
C26_SubmitsIntoEmptyInput ==
    Submitted => last.pre_srcArea = EmptyStr

\* C30: when a click fails while translate sets the language pair, the
\* TimeoutException leaves translate, with or without a fallback, and no text
\* was sent to the source textarea.
C30_LookupFailurePropagates ==
    (last.op = "translate" /\ last.failedAt = "click") =>
        /\ last.outcome = "TimeoutException"
        /\ pc = "idle"
        /\ ~Submitted
        /\ srcArea = last.pre_srcArea

\* a click failed in a translate that was given a usable fallback
C30_Witness ==
    /\ last.op = "translate"
    /\ last.failedAt = "click"
    /\ FallbackUsed(last.fallback)
    /\ last.outcome = "TimeoutException"

\* C27: under every interleaving of claim() and stash(), no claim() ends in
\* IndexError by popping from a list that another thread emptied.
C27_ClaimNeverFails ==
    ~indexError

\* C28: after the pool's quit() has run, claim() returns no session that was
\* quit, and no session that was quit is in the list of available sessions.
C28_NoQuitSessionAvailable ==
    /\ plast.op = "claim" => quits[plast.s] = 0
    /\ \A s \in Range(pool) : quits[s] = 0

\* C29: when no claim() is in progress, the number of sessions constructed
\* is at most the largest number of sessions that were held at the same time.
C29_CreatesOnlyWhatIsNeeded ==
    (\A t \in Callers : tpc[t] = "idle") => created <= peak

\* C22: every translate call ends, by returning or by raising, whatever the
\* page does with the result area: each wait ends at its deadline.
C22_TranslateTerminates ==
    (pc # "idle") ~> (pc = "idle")

\* a translate ended although the stale text never left the result area
C22_Witness ==
    /\ last.op = "translate"
    /\ pc = "idle"
    /\ last.failedAt = "stale_wait"
    /\ last.stale
    /\ ~last.sawAbsent

\* the step that sends the text to the source textarea
SubmitStep == pc = "idle" /\ pc' # "idle"

\* the step that appends a session to the list of available sessions
ReleaseStep == Len(pool') > Len(pool)

\* C23: in a translate() of the pool the text is submitted only on the
\* claimed session and after the requested pair is set, the result is awaited
\* after that, and the session is released only when the wait has ended.
C23_ClaimPairSubmitAwaitRelease ==
    [][ /\ SubmitStep =>
            /\ tlocal[MainCaller] \in held[MainCaller]
            /\ tlocal[MainCaller] \notin Range(pool)
            /\ last'.src # last'.tgt => (src_lang' = last'.src /\ tgt_lang' = last'.tgt)
            /\ SelectionClicks(last'.ui) = SelectionClicks(SubSeq(last'.ui, 1, Len(last'.ui) - 1))
            /\ last'.ui[Len(last'.ui)].sel = SendKeys
        /\ ReleaseStep =>
            /\ pc = "idle"
            /\ last.op = "translate"
            /\ last.outcome # "running"
            /\ Len(last.text) > 1 =>
                  /\ Submitted
                  /\ last.accepted \/ last.failedAt \in {"stale_wait", "ready_wait"}
            /\ pool' = Append(pool, tlocal[MainCaller])
            /\ tlocal[MainCaller] \in held[MainCaller]
      ]_vars

\* a translate() of the pool went through all five events and returned
C23_Witness ==
    /\ plast.op = "translate"
    /\ plast.outcome = "ok"
    /\ tpc[MainCaller] = "idle"
    /\ last.op = "translate"
    /\ last.accepted
    /\ SelectionClicks(last.ui) # << >>
    /\ plast.s \in Range(pool)

\* the call reached the target step: it clicked the button of the target list
ReachedTargetStep == \E i \in DOMAIN last.ui : last.ui[i].sel = TgtBtn

\* C31: when a click of set_source, of set_target or of the swap fails, the
\* step it belongs to leaves the tracked pair as it was: the target is the
\* one before the call, and the source is the one before the call unless an
\* earlier source step of the same set_pair had succeeded.
C31_FailedClickKeepsPair ==
    (last.failedAt = "click" /\ pc = "idle") =>
        /\ last.outcome = "TimeoutException"
        /\ tgt_lang = last.pre_tgt
        /\ IF last.op \in {"set_pair", "translate"} /\ ReachedTargetStep
           THEN src_lang = Lower(last.src)
           ELSE src_lang = last.pre_src

\* the click on the option of another source language failed
C31_Witness ==
    /\ last.op = "set_source"
    /\ last.failedAt = "click"
    /\ Len(last.ui) = 2
    /\ Lower(last.src) # last.pre_src
    /\ src_lang = last.pre_src

\* C32: set_target(x) does not raise BadTargetLanguageError for an id x of
\* the target catalog other than the current source and target, and
\* set_source(x) does not raise BadSourceLanguageError for an id x of the
\* source catalog.
C32_CatalogIdsAccepted ==
    /\ ( /\ last.op = "set_target"
         /\ last.tgt \in sup_langs.tgt_langs
         /\ last.tgt \notin {last.pre_src, last.pre_tgt} ) =>
            last.outcome # "BadTargetLanguageError"
    /\ (last.op = "set_source" /\ last.src \in sup_langs.src_langs) =>
            last.outcome # "BadSourceLanguageError"

\* the positions of a selector in the clicks of the last call
Positions(sel) == {i \in DOMAIN last.ui : last.ui[i].sel = sel}

\* C33: on the sequential path of set_pair the source list is opened before
\* the target list, never after it; and set_target(t) with t the current
\* source makes no click and leaves tgt_lang unchanged.
C33_SourceBeforeTarget ==
    /\ last.op \in {"set_pair", "translate"} =>
          \A i \in Positions(SrcBtn), j \in Positions(TgtBtn) : i < j
    /\ (last.op = "set_target" /\ last.tgt = last.pre_src) =>
          /\ last.ui = << >>
          /\ last.outcome = "ok"
          /\ tgt_lang = last.pre_tgt
          /\ src_lang = last.pre_src

\* a set_pair selected the source and then the target
C33_Witness ==
    /\ last.op = "set_pair"
    /\ last.outcome = "ok"
    /\ Positions(SrcBtn) = {1}
    /\ Positions(TgtBtn) = {3}
    /\ src_lang = last.src
    /\ tgt_lang = last.tgt

\* C34: in the older _set_languages the swap button is clicked exactly when
\* the requested pair is the current pair reversed.
C34_SwapExactlyWhenReversed ==
    ( /\ last.op = "set_languages"
      /\ is_language_supported(last.src)
      /\ is_language_supported(last.tgt) ) =>
        (Positions(SwitchBtn) # {} <=> (last.src = last.pre_tgt /\ last.tgt = last.pre_src))

\* C35: when __exit__ of the BrowserPool has run, every browser that claim()
\* created has been quit, the browsers that were never stashed back too.
C35_ExitQuitsEveryBrowser ==
    plast.op = "exit" => \A s \in 1..created : quits[s] >= 1

====
